---- MODULE Spec2Model ----
(***************************************************************************)
(* zygiskd: the daemon of ZygiskOnKernelSU.                                *)
(*                                                                         *)
(* The model follows src/zygiskd/src/zygiskd.rs (entry, load_modules,      *)
(* spawn_companion, handle_daemon_action) and                              *)
(* src/zygiskd/src/root_impl/mod.rs (ROOT_IMPL, setup, get_impl).          *)
(*                                                                         *)
(* One handling unit (thread) per accepted connection; the units share the *)
(* immutable Context and one Mutex<Option<UnixStream>> per module.  The    *)
(* processes started by spawn_companion and the descriptors they inherit   *)
(* are part of the state: a companion-side endpoint is closed for the      *)
(* daemon-side endpoint only when every process holding a copy has closed  *)
(* it.                                                                     *)
(***************************************************************************)
EXTENDS Integers, Sequences, FiniteSets, TLC

\* ------------------------------------------------------------------ bounds
\* Connections accepted in one run.
NConn == 3
\* Entries of the modules directory.
MaxEntries == 2
\* uids a client asks about are 0..MaxUid.
MaxUid == 1
\* Connections accepted in a run whose clients send every kind of request.
NMixed == 2

Conn == 1..NConn

\* ------------------------------------------------------- wire-level values
\* The variants of DaemonSocketAction, in the order of the protocol table.
Actions ==
    {"PingHeartbeat", "RequestLogcatFd", "ReadNativeBridge", "GetProcessFlags",
     "ReadModules", "RequestCompanionSocket", "GetModuleDir"}

\* A byte with no matching variant.
InvalidAction == "Invalid"

\* constants::PROCESS_* (bit0, bit1, bit2, bit3 of the flags word).
PROCESS_GRANTED_ROOT == 1
PROCESS_ON_DENYLIST == 2
PROCESS_ROOT_IS_KSU == 4
PROCESS_ROOT_IS_MAGISK == 8

\* One item a client receives on its stream.
Item(t, v) == [t |-> t, v |-> v]
Byte0 == Item("u8", 0)

\* ------------------------------------------------------------- root_impl
RootImpl == {"None", "TooOld", "Abnormal", "Multiple", "KernelSU", "Magisk"}

\* What kernelsu::get_kernel_su() and magisk::get_magisk() return.
KsuResult == {"Absent", "Supported", "TooOld", "Abnormal"}
MagiskResult == {"Absent", "Supported", "TooOld"}

\* setup() that lets KernelSU win when both backends are present.
setup_PrefersKsu(ksu_version, magisk_version) ==
    CASE ksu_version = "Absent" /\ magisk_version = "Absent" -> "None"
      [] ksu_version # "Absent" ->
            (CASE ksu_version = "Supported" -> "KernelSU"
               [] ksu_version = "TooOld" -> "TooOld"
               [] ksu_version = "Abnormal" -> "Abnormal")
      [] ksu_version = "Absent" /\ magisk_version # "Absent" ->
            (CASE magisk_version = "Supported" -> "Magisk"
               [] magisk_version = "TooOld" -> "TooOld")

\* The match of setup().
setup(ksu_version, magisk_version) ==
    CASE ksu_version = "Absent" /\ magisk_version = "Absent" -> "None"
      [] ksu_version # "Absent" /\ magisk_version # "Absent" -> "Multiple"
      [] ksu_version # "Absent" /\ magisk_version = "Absent" ->
            (CASE ksu_version = "Supported" -> "KernelSU"
               [] ksu_version = "TooOld" -> "TooOld"
               [] ksu_version = "Abnormal" -> "Abnormal")
      [] ksu_version = "Absent" /\ magisk_version # "Absent" ->
            (CASE magisk_version = "Supported" -> "Magisk"
               [] magisk_version = "TooOld" -> "TooOld")

\* ---------------------------------------------------------- load_modules
\* A directory entry: does zygisk/<arch>.so exist, is there a disable
\* marker, does create_library_fd succeed.  The entry's name is its
\* position in the enumeration.
DirEntry == [so : BOOLEAN, disabled : BOOLEAN, fd_ok : BOOLEAN]

Dirs == UNION {[1..n -> DirEntry] : n \in 0..MaxEntries}

RECURSIVE load_from_Aborts(_, _)
\* load_from where a failed create_library_fd ends the enumeration.
load_from_Aborts(dir, k) ==
    IF k > Len(dir) THEN <<>>
    ELSE IF ~dir[k].so \/ dir[k].disabled THEN load_from_Aborts(dir, k + 1)
    ELSE IF ~dir[k].fd_ok THEN <<>>
    ELSE <<k>> \o load_from_Aborts(dir, k + 1)

RECURSIVE load_from(_, _)
\* The loop of load_modules from entry k on.
load_from(dir, k) ==
    IF k > Len(dir) THEN <<>>
    ELSE IF ~dir[k].so \/ dir[k].disabled THEN load_from(dir, k + 1)
    ELSE IF ~dir[k].fd_ok THEN load_from(dir, k + 1)
    ELSE <<k>> \o load_from(dir, k + 1)

load_modules(dir) == load_from(dir, 1)

\* ------------------------------------------------------------------ state
VARIABLES
    env,            \* what surrounds the daemon in this run (see Envs)
    phase,          \* position of the main thread: boot, setup, loaded, listening, exited
    ROOT_IMPL,      \* static mut ROOT_IMPL
    implWrites,     \* number of assignments to ROOT_IMPL so far
    queries,        \* calls of get_kernel_su() and of get_magisk() so far
    modules,        \* Context.modules: the names, in order
    companion,      \* Module.companion, by module index: an endpoint or NoEndpoint
    mutex,          \* holder of the Mutex of Module.companion, by module index
    pc,             \* position of each handling unit
    act,            \* the action a unit read
    arg,            \* the request body a unit read (module index or uid)
    resp,           \* what the client of the unit has received
    hist,           \* what a unit did on its way, for the properties (steps:
                    \* of the spawn_companion call of the request in progress)
    proc,           \* the module of the live process launched by the spawn of a unit
    procFds,        \* the companion-side endpoints that process holds
    status,         \* the status byte that process has written and the daemon not yet read
    openEnds,       \* companion-side endpoints open in the daemon, close-on-exec cleared
    spawns,         \* calls of spawn_companion so far, by module index
    vacated         \* times a slot was left or made empty, by module index

vars == <<env, phase, ROOT_IMPL, implWrites, queries, modules, companion, mutex,
          pc, act, arg, resp, hist, proc, procFds, status, openEnds,
          spawns, vacated>>

startupVars == <<ROOT_IMPL, implWrites, queries, modules>>
procVars == <<proc, procFds, status, openEnds>>
counts == <<spawns, vacated>>

NoEndpoint == 0
NoHolder == 0
NoByte == 255

\* Module indices a client may send: the valid ones and one past them.
Indices == 0..MaxEntries

Final == {"ok", "err_io", "err_action", "err_poll", "panic"}

\* The positions of handle_daemon_action that are under the lock of the
\* module.
Section == {"spawn", "read_status", "respond"}

NoHist == [fail |-> "none", child_returned |-> FALSE, queried |-> FALSE,
           steps |-> <<>>]

\* proc of a unit that has launched no process, or whose process has exited.
NoProc == 0 - 1

\* arg of a unit that has read no request body.
NoArg == 0 - 1

\* A directory of two entries, both loadable modules.
TwoModules ==
    [k \in 1..2 |-> [so |-> TRUE, disabled |-> FALSE, fd_ok |-> TRUE]]

\* The status bytes a companion writes: keep, do not keep, and one that is
\* neither.
StatusBytes == {0, 1, 2}

\* The surroundings of a run: the action bytes its clients send, how many
\* connect, what the modules directory holds, what the two detectors
\* report, whether system calls of the daemon fail, and the status bytes
\* companions write.
\*   EnvProviders   any outcome of the detection, clients that ask for flags
\*   EnvDirectory   any directory, clients that read the modules
\*   EnvFaults      companion requests where any call may fail
\*   EnvCompanions  more companion requests, where no call fails
\*   EnvMixed       companion requests among requests of other kinds
EnvProviders ==
    [workload |-> {"GetProcessFlags", "PingHeartbeat", InvalidAction},
     clients |-> NMixed, dirs |-> {TwoModules},
     ksu |-> KsuResult, magisk |-> MagiskResult,
     faults |-> TRUE, bytes |-> StatusBytes]

EnvDirectory ==
    [workload |-> {"ReadModules", "GetModuleDir", "ReadNativeBridge", "RequestLogcatFd"},
     clients |-> NMixed, dirs |-> Dirs,
     ksu |-> {"Supported"}, magisk |-> {"Absent"},
     faults |-> TRUE, bytes |-> StatusBytes]

EnvFaults ==
    [workload |-> {"RequestCompanionSocket"},
     clients |-> NMixed, dirs |-> {TwoModules},
     ksu |-> {"Supported"}, magisk |-> {"Absent"},
     faults |-> TRUE, bytes |-> StatusBytes]

EnvCompanions ==
    [workload |-> {"RequestCompanionSocket"},
     clients |-> NConn, dirs |-> {TwoModules},
     ksu |-> {"Supported"}, magisk |-> {"Absent"},
     faults |-> FALSE, bytes |-> {0, 1}]

EnvMixed ==
    [workload |-> {"RequestCompanionSocket", "ReadModules", "GetModuleDir"},
     clients |-> NMixed, dirs |-> {TwoModules},
     ksu |-> {"Supported"}, magisk |-> {"Absent"},
     faults |-> FALSE, bytes |-> {0, 1}]

Envs == {EnvProviders, EnvDirectory, EnvFaults, EnvCompanions, EnvMixed}

\* The daemon before its start routine has run.
Boot ==
    /\ phase = "boot"
    /\ ROOT_IMPL = "None"
    /\ implWrites = 0
    /\ queries = [ksu |-> 0, magisk |-> 0]
    /\ modules = <<>>
    /\ companion = <<>>
    /\ mutex = <<>>
    /\ pc = [c \in Conn |-> "idle"]
    /\ act = [c \in Conn |-> "none"]
    /\ arg = [c \in Conn |-> NoArg]
    /\ resp = [c \in Conn |-> <<>>]
    /\ hist = [c \in Conn |-> NoHist]
    /\ proc = [c \in Conn |-> NoProc]
    /\ procFds = [c \in Conn |-> {}]
    /\ status = [c \in Conn |-> NoByte]
    /\ openEnds = {}
    /\ spawns = <<>>
    /\ vacated = <<>>

Init ==
    /\ env \in Envs
    /\ Boot

\* ---------------------------------------------------------------- startup
\* The daemon's start routine calls root_impl::setup() once, before
\* zygiskd::entry(): both detectors are queried and ROOT_IMPL is assigned.
Setup ==
    /\ phase = "boot"
    /\ \E k \in env.ksu, m \in env.magisk :
          ROOT_IMPL' = setup(k, m)
    /\ implWrites' = implWrites + 1
    /\ queries' = [ksu |-> queries.ksu + 1, magisk |-> queries.magisk + 1]
    /\ phase' = "setup"
    /\ UNCHANGED <<env, modules, companion, mutex, pc, act, arg, resp, hist,
                   procVars, counts>>

\* entry(): get_arch, load_modules and the construction of Context.  A
\* directory that cannot be read gives no modules.
LoadModules ==
    /\ phase = "setup"
    /\ \E dir \in env.dirs, readable \in {TRUE, ~env.faults} :
          LET ms == IF readable THEN load_modules(dir) ELSE <<>> IN
          /\ modules' = ms
          /\ companion' = [i \in 0..(Len(ms) - 1) |-> NoEndpoint]
          /\ mutex' = [i \in 0..(Len(ms) - 1) |-> NoHolder]
          /\ spawns' = [i \in 0..(Len(ms) - 1) |-> 0]
          /\ vacated' = [i \in 0..(Len(ms) - 1) |-> 0]
    /\ phase' = "loaded"
    /\ UNCHANGED <<env, ROOT_IMPL, implWrites, queries, pc, act, arg, resp,
                   hist, procVars>>

\* entry(): create_daemon_socket.
CreateSocket ==
    /\ phase = "loaded"
    /\ phase' = "listening"
    /\ UNCHANGED <<env, startupVars, companion, mutex, pc, act, arg, resp,
                   hist, procVars, counts>>

\* entry() returns an error before it listens: get_arch, a directory entry
\* or create_daemon_socket fails.
EntryError ==
    /\ env.faults
    /\ phase \in {"setup", "loaded"}
    /\ phase' = "exited"
    /\ UNCHANGED <<env, startupVars, companion, mutex, pc, act, arg, resp,
                   hist, procVars, counts>>

\* ------------------------------------------------------------ accept loop
\* The next connection to arrive: connections are numbered in the order
\* they are accepted.
Arrives(c) ==
    /\ phase = "listening"
    /\ pc[c] = "idle"
    /\ c <= env.clients
    /\ \A d \in Conn : d < c => pc[d] # "idle"

\* `let stream = stream?` fails for the connection that arrives: entry()
\* returns and the daemon ends.
AcceptError(c) ==
    /\ env.faults
    /\ Arrives(c)
    /\ phase' = "exited"
    /\ UNCHANGED <<env, startupVars, companion, mutex, pc, act, arg, resp,
                   hist, procVars, counts>>

\* What a handling unit leaves alone when it touches only its own stream.
UnitOnly ==
    UNCHANGED <<env, phase, startupVars, companion, mutex, hist, procVars, counts>>

\* listener.incoming() yields the stream of c, a thread is spawned for it
\* and handle_daemon_action reads action byte a from it.
Reads(c, a) ==
    /\ Arrives(c)
    /\ a \in env.workload
    /\ act' = [act EXCEPT ![c] = a]

\* The unit ends: its closure returns (Ok, or Err logged) or its thread panics.
Ends(c, how) == pc' = [pc EXCEPT ![c] = how]

\* A read or write on the client's stream fails and `?` returns the error.
IoError(c) ==
    /\ env.faults
    /\ Ends(c, "err_io")

\* stream.read_u8() fails: the client went away before sending its action.
ReadActionError(c) ==
    /\ Arrives(c)
    /\ IoError(c)
    /\ UNCHANGED <<act, arg, resp>>
    /\ UnitOnly

\* UnknownAction whose error is returned by entry() instead of being
\* logged by the unit: the accept loop ends.
UnknownAction_Propagates(c) ==
    /\ Reads(c, InvalidAction)
    /\ Ends(c, "err_action")
    /\ phase' = "exited"
    /\ UNCHANGED <<arg, resp>>
    /\ UNCHANGED <<env, startupVars, companion, mutex, hist, procVars, counts>>

\* DaemonSocketAction::try_from fails.
UnknownAction(c) ==
    /\ Reads(c, InvalidAction)
    /\ Ends(c, "err_action")
    /\ UNCHANGED <<arg, resp>>
    /\ UnitOnly

PingHeartbeat(c) ==
    /\ Reads(c, "PingHeartbeat")
    /\ Ends(c, "ok")
    /\ UNCHANGED <<arg, resp>>
    /\ UnitOnly

\* The loop ends Ok when reading a level fails, and Err when reading the
\* tag or the message, or log_raw, fails.
RequestLogcatFd(c) ==
    /\ Reads(c, "RequestLogcatFd")
    /\ \/ Ends(c, "ok")
       \/ IoError(c)
    /\ UNCHANGED <<arg, resp>>
    /\ UnitOnly

ReadNativeBridge(c) ==
    /\ Reads(c, "ReadNativeBridge")
    /\ \/ /\ resp' = [resp EXCEPT ![c] = <<Item("string", 0)>>]
          /\ Ends(c, "ok")
       \/ /\ UNCHANGED resp
          /\ IoError(c)
    /\ UNCHANGED arg
    /\ UnitOnly

\* ProcessFlags with the two arms of the match swapped.
ProcessFlags_Swapped(allow, deny, impl) ==
    (IF allow THEN PROCESS_GRANTED_ROOT ELSE 0)
    + (IF deny THEN PROCESS_ON_DENYLIST ELSE 0)
    + (IF impl = "KernelSU" THEN PROCESS_ROOT_IS_MAGISK ELSE PROCESS_ROOT_IS_KSU)

\* The flags word of GetProcessFlags for the two policy answers and the
\* provider returned by get_impl().
ProcessFlags(allow, deny, impl) ==
    (IF allow THEN PROCESS_GRANTED_ROOT ELSE 0)
    + (IF deny THEN PROCESS_ON_DENYLIST ELSE 0)
    + (IF impl = "KernelSU" THEN PROCESS_ROOT_IS_KSU ELSE PROCESS_ROOT_IS_MAGISK)

\* get_impl(): a reference to ROOT_IMPL.
get_impl == ROOT_IMPL

\* GetProcessFlags that detects the provider again on a request.
GetProcessFlags_Redetects(c) ==
    /\ Reads(c, "GetProcessFlags")
    /\ \E k \in env.ksu, m \in env.magisk : ROOT_IMPL' = setup(k, m)
    /\ implWrites' = implWrites + 1
    /\ queries' = [ksu |-> queries.ksu + 1, magisk |-> queries.magisk + 1]
    /\ Ends(c, "ok")
    /\ UNCHANGED <<arg, resp>>
    /\ UNCHANGED <<env, phase, modules, companion, mutex, hist, procVars, counts>>

GetProcessFlags(c) ==
    /\ Reads(c, "GetProcessFlags")
    /\ \/ \* read_u32 fails
          /\ UNCHANGED <<arg, resp, hist>>
          /\ IoError(c)
       \/ \* uid_on_allowlist(uid) and uid_on_denylist(uid) are called, then
          \* get_impl() is matched
          \E uid \in 0..MaxUid, allow \in BOOLEAN, deny \in BOOLEAN :
             /\ arg' = [arg EXCEPT ![c] = uid]
             /\ hist' = [hist EXCEPT ![c].queried = TRUE]
             /\ IF get_impl \in {"KernelSU", "Magisk"}
                THEN \/ /\ resp' = [resp EXCEPT ![c] =
                                       <<Item("u32", ProcessFlags(allow, deny, get_impl))>>]
                        /\ Ends(c, "ok")
                     \/ /\ UNCHANGED resp
                        /\ IoError(c)
                ELSE \* unreachable!()
                     /\ UNCHANGED resp
                     /\ Ends(c, "panic")
    /\ UNCHANGED <<ROOT_IMPL, implWrites, queries>>
    /\ UNCHANGED <<env, phase, modules, companion, mutex, procVars, counts>>

RECURSIVE ModuleItems_Reversed(_, _)
\* ModuleItems that lists the modules last first.
ModuleItems_Reversed(ms, k) ==
    IF k > Len(ms) THEN <<>>
    ELSE ModuleItems_Reversed(ms, k + 1)
         \o <<Item("string", ms[k]), Item("fd_memfd", ms[k])>>

RECURSIVE ModuleItems(_, _)
\* What ReadModules writes for the modules from position k on.
ModuleItems(ms, k) ==
    IF k > Len(ms) THEN <<>>
    ELSE <<Item("string", ms[k]), Item("fd_memfd", ms[k])>> \o ModuleItems(ms, k + 1)

\* A write of ReadModules may fail after any prefix has been sent.
ReadModules(c) ==
    /\ Reads(c, "ReadModules")
    /\ LET all == <<Item("usize", Len(modules))>> \o ModuleItems(modules, 1) IN
       \/ /\ resp' = [resp EXCEPT ![c] = all]
          /\ Ends(c, "ok")
       \/ \E n \in 0..(Len(all) - 1) :
             /\ resp' = [resp EXCEPT ![c] = SubSeq(all, 1, n)]
             /\ IoError(c)
    /\ UNCHANGED arg
    /\ UnitOnly

\* GetModuleDir that answers an index past the end with a byte 0 instead
\* of failing the connection.
GetModuleDir_Answers(c) ==
    /\ Reads(c, "GetModuleDir")
    /\ \E index \in Indices :
          /\ arg' = [arg EXCEPT ![c] = index]
          /\ resp' = [resp EXCEPT ![c] =
                         IF index >= Len(modules) THEN <<Byte0>>
                         ELSE <<Item("fd_dir", modules[index + 1])>>]
          /\ Ends(c, "ok")
    /\ UnitOnly

GetModuleDir(c) ==
    /\ Reads(c, "GetModuleDir")
    /\ \/ \* read_usize fails
          /\ UNCHANGED <<arg, resp>>
          /\ IoError(c)
       \/ \E index \in Indices :
             /\ arg' = [arg EXCEPT ![c] = index]
             /\ IF index >= Len(modules)
                THEN \* context.modules[index] panics
                     /\ UNCHANGED resp
                     /\ Ends(c, "panic")
                ELSE \/ /\ resp' = [resp EXCEPT ![c] =
                                       <<Item("fd_dir", modules[index + 1])>>]
                        /\ Ends(c, "ok")
                     \/ \* File::open or send_fd fails
                        /\ UNCHANGED resp
                        /\ IoError(c)
    /\ UnitOnly

\* ------------------------------------------------ RequestCompanionSocket
\* The live processes that hold a copy of the companion-side endpoint e.
Holders(e) == {p \in Conn : proc[p] # NoProc /\ e \in procFds[p]}

\* The daemon-side endpoint e sees its peer closed: no process, the daemon
\* included, holds the companion-side endpoint any more.
PeerClosed(e) == Holders(e) = {} /\ e \notin openEnds

\* The daemon drops its endpoint e: copies of the other side that
\* processes still hold are connected to nothing from then on.
Dropped(fds, e) == [p \in Conn |-> fds[p] \ {e}]

\* read_usize and context.modules[index].
RequestCompanionSocket(c) ==
    /\ Reads(c, "RequestCompanionSocket")
    /\ \/ \* read_usize fails
          /\ UNCHANGED arg
          /\ IoError(c)
       \/ \E index \in Indices :
             /\ env.faults \/ index < Len(modules)
             /\ arg' = [arg EXCEPT ![c] = index]
             /\ IF index >= Len(modules)
                THEN Ends(c, "panic")
                ELSE pc' = [pc EXCEPT ![c] = "lock"]
    /\ UNCHANGED resp
    /\ UnitOnly

\* Acquire on one lock for all the modules: it blocks while any module's
\* guard is held.
Acquire_Global(c, m) ==
    /\ \A i \in DOMAIN mutex : mutex[i] = NoHolder
    /\ mutex' = [mutex EXCEPT ![m] = c]

\* Acquire without mutual exclusion: the guard is handed out although
\* another unit holds it.
Acquire_NoExclusion(c, m) == mutex' = [mutex EXCEPT ![m] = c]

\* module.companion.lock() returns the guard of module m to unit c: it
\* blocks while another unit holds it.
Acquire(c, m) ==
    /\ mutex[m] = NoHolder
    /\ mutex' = [mutex EXCEPT ![m] = c]

\* The guard is dropped when the unit leaves handle_daemon_action.
Release(c) == mutex' = [mutex EXCEPT ![arg[c]] = NoHolder]

\* Probed without companion.take(): a dead endpoint stays in the slot.
Probed_Keeps(sock) == sock

\* The reuse check, `poll` with no requested events on the cached endpoint
\* sock: any reported event takes the endpoint out of the slot.  Gives the
\* slot after the check.
Probed(sock) == IF sock # NoEndpoint /\ PeerClosed(sock) THEN NoEndpoint ELSE sock

\* NeedsSpawn without the test: every request spawns.
NeedsSpawn_Always(sock) == TRUE

\* `if companion.as_ref().is_none()`: the spawn protocol runs only for an
\* empty slot.
NeedsSpawn(sock) == sock = NoEndpoint

\* The lock, the reuse check and the test that decides whether to spawn.
LockAndProbe(c) ==
    /\ phase = "listening"
    /\ pc[c] = "lock"
    /\ LET m == arg[c]
           sock == companion[m]
           after == Probed(sock) IN
       /\ Acquire(c, m)
       /\ companion' = [companion EXCEPT ![m] = after]
       /\ procFds' = IF after = sock THEN procFds ELSE Dropped(procFds, sock)
       /\ vacated' = IF after = sock THEN vacated
                     ELSE [vacated EXCEPT ![m] = @ + 1]
       /\ pc' = [pc EXCEPT ![c] = IF NeedsSpawn(after) THEN "spawn" ELSE "respond"]
    /\ UNCHANGED <<env, phase, startupVars, act, arg, resp, hist, proc, status,
                   openEnds, spawns>>

\* poll fails under the lock: the error leaves the handler, the guard is
\* dropped.
PollError(c) ==
    /\ env.faults
    /\ phase = "listening"
    /\ pc[c] = "lock"
    /\ mutex[arg[c]] = NoHolder
    /\ companion[arg[c]] # NoEndpoint
    /\ Ends(c, "err_poll")
    /\ UNCHANGED <<env, phase, startupVars, companion, mutex, act, arg, resp, hist,
                   procVars, counts>>

\* How spawn_companion can go up to the point where it waits for the
\* status byte.
\*   spawn_err   UnixStream::pair, fcntl or fork fails, or waitpid reports
\*               a non-zero exit code or no exit at all
\*   exec_fail   Command::spawn fails in the child: the child returns the
\*               error into its copy of handle_daemon_action
\*   xfer_err    the companion is launched, write_string or send_fd fails
\*   launched    the companion is launched and has the name and the fd
SpawnOutcomes == {"spawn_err", "exec_fail", "xfer_err", "launched"}

\* The daemon-side steps of spawn_companion an outcome has completed when
\* it returns or reaches daemon.read_u8(): the wait for the forked child,
\* the name, the library descriptor.
StepsDone(o) ==
    CASE o = "spawn_err" -> {<<>>}
      [] o = "xfer_err" -> {<<"wait">>, <<"wait", "name">>}
      [] OTHER -> {<<"wait", "name", "fd">>}

\* spawn_companion up to daemon.send_fd.  The companion-side endpoint has
\* close-on-exec cleared and stays open in the daemon until spawn_companion
\* returns; a process launched by any thread meanwhile inherits it.
SpawnCompanion(c) ==
    /\ phase = "listening"
    /\ pc[c] = "spawn"
    /\ \E o \in SpawnOutcomes :
          /\ env.faults \/ o = "launched"
          /\ IF o \in {"xfer_err", "launched"}
             THEN /\ proc' = [proc EXCEPT ![c] = arg[c]]
                  /\ procFds' = [procFds EXCEPT ![c] =
                                    openEnds \cup (IF o = "launched" THEN {c} ELSE {})]
             ELSE UNCHANGED <<proc, procFds>>
          /\ IF o \in {"exec_fail", "launched"}
             THEN /\ openEnds' = openEnds \cup {c}
                  /\ pc' = [pc EXCEPT ![c] = "read_status"]
             ELSE /\ UNCHANGED openEnds
                  /\ pc' = [pc EXCEPT ![c] = "respond"]
          /\ vacated' = IF o \in {"exec_fail", "launched"} THEN vacated
                        ELSE [vacated EXCEPT ![arg[c]] = @ + 1]
          /\ \E done \in StepsDone(o) :
                hist' = [hist EXCEPT ![c].fail = IF o \in {"exec_fail", "launched"}
                                                 THEN "none" ELSE o,
                                     ![c].child_returned = (o = "exec_fail"),
                                     ![c].steps = done]
          /\ \* the child that returned into the handler finds the slot
             \* empty and writes 0 on the client's stream before it ends
             resp' = [resp EXCEPT ![c] = IF o = "exec_fail"
                                         THEN Append(@, Byte0) ELSE @]
    /\ spawns' = [spawns EXCEPT ![arg[c]] = @ + 1]
    /\ UNCHANGED <<env, phase, startupVars, companion, mutex, act, arg, status>>

\* The companion process writes its status byte.
CompanionWritesStatus(p) ==
    /\ proc[p] # NoProc
    /\ pc[p] = "read_status"
    /\ status[p] = NoByte
    /\ \E b \in env.bytes : status' = [status EXCEPT ![p] = b]
    /\ UNCHANGED <<env, phase, startupVars, companion, mutex, pc, act, arg,
                   resp, hist, proc, procFds, openEnds, counts>>

\* The companion process exits; its descriptors are closed.
CompanionExits(p) ==
    /\ proc[p] # NoProc
    /\ proc' = [proc EXCEPT ![p] = NoProc]
    /\ procFds' = [procFds EXCEPT ![p] = {}]
    /\ UNCHANGED <<env, phase, startupVars, companion, mutex, pc, act, arg,
                   resp, hist, status, openEnds, counts>>

\* ReadStatus that keeps the endpoint whatever the byte is.
ReadStatus_KeepsAny(c) ==
    /\ phase = "listening"
    /\ pc[c] = "read_status"
    /\ status[c] # NoByte
    /\ companion' = [companion EXCEPT ![arg[c]] = c]
    /\ hist' = [hist EXCEPT ![c].steps = Append(@, "status")]
    /\ status' = [status EXCEPT ![c] = NoByte]
    /\ openEnds' = openEnds \ {c}
    /\ pc' = [pc EXCEPT ![c] = "respond"]
    /\ UNCHANGED <<env, phase, startupVars, mutex, act, arg, resp, proc, procFds,
                   counts>>

\* daemon.read_u8() and the match on the byte, then `*companion = c`.
\* The read returns once a byte has arrived; the daemon's own copy of the
\* companion-side endpoint is open until spawn_companion returns, so the
\* read never sees end of file.
ReadStatus(c) ==
    /\ phase = "listening"
    /\ pc[c] = "read_status"
    /\ status[c] # NoByte
    /\ LET b == status[c] IN
       /\ companion' = [companion EXCEPT ![arg[c]] = IF b = 1 THEN c ELSE NoEndpoint]
       /\ procFds' = IF b = 1 THEN procFds ELSE Dropped(procFds, c)
       /\ hist' = [hist EXCEPT ![c].fail = IF b \in {0, 1} THEN "none" ELSE "bad_status",
                               ![c].steps = Append(@, "status")]
       /\ vacated' = IF b = 1 THEN vacated ELSE [vacated EXCEPT ![arg[c]] = @ + 1]
    /\ status' = [status EXCEPT ![c] = NoByte]
    /\ openEnds' = openEnds \ {c}
    /\ pc' = [pc EXCEPT ![c] = "respond"]
    /\ UNCHANGED <<env, phase, startupVars, mutex, act, arg, resp, proc, spawns>>

\* WriteZero that writes nothing: the unit ends Ok and the client has no
\* answer.
WriteZero_Silent(c) ==
    /\ UNCHANGED resp
    /\ Ends(c, "ok")

\* write_u8(0) on the client's stream, which may fail.
WriteZero(c) ==
    \/ /\ resp' = [resp EXCEPT ![c] = Append(@, Byte0)]
       /\ Ends(c, "ok")
    \/ /\ UNCHANGED resp
       /\ IoError(c)

\* The last match of the handler: hand the client's descriptor to the
\* companion, or write 0.  send_fd fails when the peer is closed, and may
\* fail otherwise.
Respond(c) ==
    /\ phase = "listening"
    /\ pc[c] = "respond"
    /\ LET sock == companion[arg[c]] IN
       \/ \* sock.send_fd(stream) succeeds: the companion answers the client
          /\ sock # NoEndpoint
          /\ ~PeerClosed(sock)
          /\ resp' = [resp EXCEPT ![c] = Append(@, Item("handoff", 0))]
          /\ Ends(c, "ok")
          /\ hist' = [hist EXCEPT ![c].steps = <<>>]
       \/ \* sock.send_fd(stream) fails
          /\ sock # NoEndpoint
          /\ env.faults \/ PeerClosed(sock)
          /\ WriteZero(c)
          /\ hist' = [hist EXCEPT ![c].fail = "handoff_fail", ![c].steps = <<>>]
       \/ \* no companion
          /\ sock = NoEndpoint
          /\ WriteZero(c)
          /\ hist' = [hist EXCEPT ![c].steps = <<>>]
    /\ Release(c)
    /\ UNCHANGED <<env, phase, startupVars, companion, act, arg, procVars, counts>>

\* ------------------------------------------------------------------- spec
Handler(c) ==
    \/ ReadActionError(c)
    \/ UnknownAction(c)
    \/ PingHeartbeat(c)
    \/ RequestLogcatFd(c)
    \/ ReadNativeBridge(c)
    \/ GetProcessFlags(c)
    \/ ReadModules(c)
    \/ GetModuleDir(c)
    \/ RequestCompanionSocket(c)
    \/ LockAndProbe(c)
    \/ PollError(c)
    \/ SpawnCompanion(c)
    \/ ReadStatus(c)
    \/ Respond(c)

Next ==
    \/ Setup
    \/ LoadModules
    \/ CreateSocket
    \/ EntryError
    \/ \E c \in Conn : AcceptError(c)
    \/ \E c \in Conn : Handler(c)
    \/ \E p \in Conn : CompanionWritesStatus(p)
    \/ \E p \in Conn : CompanionExits(p)

Spec == Init /\ [][Next]_vars

\* The threads of the daemon are scheduled fairly: a unit that can take a
\* step takes one; and a companion that is alive when the daemon waits for
\* its status byte writes it.
FairSpec ==
    /\ Spec
    /\ \A c \in Conn : WF_vars(Handler(c))
    /\ \A p \in Conn : WF_vars(CompanionWritesStatus(p))

\* ------------------------------------------------------- the startup alone
\* The startup for one outcome of each detector and one modules directory,
\* with no client: the inputs of setup() and load_modules() stay readable
\* in env.
StartupEnvs ==
    {[workload |-> {}, clients |-> 0, dirs |-> {d},
      ksu |-> {k}, magisk |-> {m}, faults |-> f, bytes |-> {}] :
        d \in Dirs, k \in KsuResult, m \in MagiskResult, f \in BOOLEAN}

InitStartup ==
    /\ env \in StartupEnvs
    /\ Boot

NextStartup ==
    \/ Setup
    \/ LoadModules
    \/ CreateSocket
    \/ EntryError

SpecStartup == InitStartup /\ [][NextStartup]_vars

\* ------------------------------------------------------------- properties
ModuleIndices == DOMAIN companion

Companion(c) == act[c] = "RequestCompanionSocket"

\* The units under the lock of module m.
InSection(m) == {c \in Conn : pc[c] \in Section /\ arg[c] = m}

\* The daemon-side endpoints open for module m: the one in the slot and
\* the ones spawn_companion holds while it waits for the status byte.
DaemonEnds(m) ==
    ({companion[m]} \ {NoEndpoint})
    \cup {c \in Conn : pc[c] = "read_status" /\ arg[c] = m}

\* C1: for every module, at every instant, at most one unit is inside the
\* reuse-check/spawn section and at most one daemon-side companion
\* connection is open (in the slot or being set up), however the requests
\* for the module interleave.
C1_OneConnectionPerModule ==
    \A m \in ModuleIndices :
       /\ Cardinality(InSection(m)) <= 1
       /\ Cardinality(DaemonEnds(m)) <= 1
       /\ InSection(m) \subseteq {mutex[m]}

\* Two requests for one module: one waits for the status byte of its
\* spawn, the other for the lock.
C1_Witness ==
    \E c, d \in Conn :
       /\ c # d /\ arg[c] = arg[d]
       /\ pc[c] = "read_status" /\ pc[d] = "lock"

\* The companion launched for the request of c has exited and its status
\* byte was never written.
DiedSilent(c) ==
    /\ pc[c] = "read_status"
    /\ ~hist[c].child_returned
    /\ proc[c] = NoProc
    /\ status[c] = NoByte

\* C2: a request whose companion dies without writing its status byte
\* does not hang: it is answered with the byte 0, so while it is
\* unanswered and the daemon runs its unit can take a step.
C2_DeadCompanionAnswered ==
    \A c \in Conn : DiedSilent(c) /\ phase = "listening" => ENABLED Handler(c)

\* C3 as stated: the requests for one module run the spawn protocol at
\* most once.
C3_AtMostOneSpawn == \A m \in ModuleIndices : spawns[m] <= 1

\* C3 as amended: the requests for one module run the spawn protocol one
\* at a time, and at most once more than the number of times the slot of
\* the module was left empty by a spawn (status byte 0, or a failure) or
\* emptied by the reuse check.
C3_OneSpawnPerVacancy ==
    \A m \in ModuleIndices :
       /\ spawns[m] <= 1 + vacated[m]
       /\ Cardinality({c \in Conn : pc[c] = "read_status" /\ arg[c] = m}) <= 1

\* Three requests for one module were served by one spawn.
C3_Witness ==
    \E m \in ModuleIndices :
       /\ spawns[m] = 1 /\ vacated[m] = 0
       /\ Cardinality({c \in Conn : Companion(c) /\ arg[c] = m /\ pc[c] = "ok"}) >= 3

\* C4: at most one companion process of a module is alive at any instant.
C4_OneProcessPerModule ==
    \A m \in ModuleIndices : Cardinality({p \in Conn : proc[p] = m}) <= 1

\* C5: a request with a valid index in which the spawn failed (pair, fork,
\* the exit of the forked child, the transfer of the name or the library
\* descriptor, a status byte other than 0 and 1) or the handoff of the
\* client's descriptor failed is answered with the single byte 0 and its
\* unit ends Ok, unless the write of that byte fails; until then the unit
\* is in the last match of the handler, where it is never blocked while
\* the daemon runs.
C5_FailureAnswersZero ==
    \A c \in Conn :
       hist[c].fail # "none" =>
          CASE pc[c] = "ok" -> resp[c] = <<Byte0>>
            [] pc[c] = "err_io" -> resp[c] = <<>>
            [] OTHER -> pc[c] = "respond" /\ (phase = "listening" => ENABLED Respond(c))

\* A request ended Ok with the byte 0 after a status byte that is neither
\* 0 nor 1, and another after its handoff failed.
C5_Witness ==
    \E c, d \in Conn :
       /\ hist[c].fail = "bad_status" /\ pc[c] = "ok" /\ resp[c] = <<Byte0>>
       /\ hist[d].fail = "handoff_fail" /\ pc[d] = "ok" /\ resp[d] = <<Byte0>>

\* C6: when a request takes the lock of a module whose slot holds a
\* connection to a companion process that has exited, its reuse check
\* empties the slot and the request goes on to the spawn protocol.
C6_DeadPeerDetected ==
    [][\A c \in Conn :
          (/\ pc[c] = "lock" /\ pc'[c] \in Section
           /\ companion[arg[c]] # NoEndpoint
           /\ proc[companion[arg[c]]] = NoProc)
          => (pc'[c] = "spawn" /\ companion'[arg[c]] = NoEndpoint)]_vars

\* A request named an index past the end of the modules.
PastEnd(c) ==
    /\ act[c] \in {"RequestCompanionSocket", "GetModuleDir"}
    /\ arg[c] >= Len(modules)

\* Everything but the state of unit c itself is as it was.
OnlyUnit(c) ==
    /\ UNCHANGED <<phase, startupVars, companion, mutex, procVars, counts>>
    /\ \A d \in Conn \ {c} :
          /\ pc'[d] = pc[d] /\ act'[d] = act[d] /\ arg'[d] = arg[d]
          /\ resp'[d] = resp[d] /\ hist'[d] = hist[d]

\* C7: a RequestCompanionSocket or GetModuleDir request with an index >=
\* the module count ends its own unit by a panic, with nothing written to
\* the client, no lock held and no process launched; the step changes no
\* slot, lock or other shared state and no other unit.
C7_IndexPastEnd ==
    /\ [](\A c \in Conn :
            PastEnd(c) =>
               /\ pc[c] = "panic" /\ resp[c] = <<>>
               /\ proc[c] = NoProc
               /\ \A m \in ModuleIndices : mutex[m] # c)
    /\ [][\A c \in Conn : (PastEnd(c))' /\ ~PastEnd(c) => OnlyUnit(c)]_vars

\* A request with an index past the end failed while another unit was
\* waiting for its companion, and that unit was then served.
C7_Witness ==
    \E c, d \in Conn :
       /\ PastEnd(c) /\ pc[c] = "panic"
       /\ c < d /\ Companion(d) /\ pc[d] = "ok"

Failed == {"err_io", "err_action", "err_poll"}

\* C8: a unit that ends with an error (no matching action, an I/O error
\* at any step) ends alone: the daemon keeps listening, no other unit, slot
\* or process changes, and the unit holds no lock afterwards; after an
\* unknown action byte the client has received nothing.
C8_FailureIsLocal ==
    /\ [](\A c \in Conn : pc[c] = "err_action" => resp[c] = <<>>)
    /\ [][\A c \in Conn :
             (pc[c] \notin Failed /\ pc'[c] \in Failed) =>
                /\ phase' = "listening"
                /\ UNCHANGED <<startupVars, companion, procVars>>
                /\ \A m \in ModuleIndices : mutex'[m] # c
                /\ \A m \in ModuleIndices : mutex[m] # c => mutex'[m] = mutex[m]
                /\ \A d \in Conn \ {c} :
                      /\ pc'[d] = pc[d] /\ resp'[d] = resp[d]]_vars

\* A unit failed on an unknown action and a later connection was served;
\* another unit failed under the lock of a module.
C8_Witness ==
    \/ \E c, d \in Conn : pc[c] = "err_action" /\ c < d /\ pc[d] = "ok"
    \/ \E c, d \in Conn : Companion(c) /\ pc[c] = "err_io" /\ arg[c] \in ModuleIndices
                            /\ c < d /\ pc[d] = "ok"

\* Bit b (a power of two) of the word w.
Bit(w, b) == (w \div b) % 2 = 1

\* The units whose GetProcessFlags request was answered.
Answered == {c \in Conn : act[c] = "GetProcessFlags" /\ pc[c] = "ok"}

\* C9: in the flags returned by any GetProcessFlags request, for any uid,
\* exactly one provider bit is set: the KernelSU bit iff ROOT_IMPL is
\* KernelSU, the Magisk bit iff it is Magisk; all requests agree.
C9_ProviderBits ==
    \A c \in Answered :
       LET w == resp[c][1].v IN
       /\ Len(resp[c]) = 1
       /\ Bit(w, PROCESS_ROOT_IS_KSU) <=> ROOT_IMPL = "KernelSU"
       /\ Bit(w, PROCESS_ROOT_IS_MAGISK) <=> ROOT_IMPL = "Magisk"
       /\ Bit(w, PROCESS_ROOT_IS_KSU) # Bit(w, PROCESS_ROOT_IS_MAGISK)
       /\ \A d \in Answered :
             Bit(resp[d][1].v, PROCESS_ROOT_IS_KSU) <=> Bit(w, PROCESS_ROOT_IS_KSU)

\* Two requests for different uids were answered under Magisk.
C9_Witness ==
    \E c, d \in Answered :
       /\ arg[c] # arg[d]
       /\ ROOT_IMPL = "Magisk"

\* C10: ROOT_IMPL is assigned exactly once before the daemon listens, and
\* neither assigned nor changed once it listens.
C10_WrittenOnce ==
    /\ [](implWrites <= 1)
    /\ [](phase = "listening" => implWrites = 1)
    /\ []((\E c \in Conn : pc[c] # "idle") => phase \in {"listening", "exited"})
    /\ [][phase = "listening" =>
             ROOT_IMPL' = ROOT_IMPL /\ implWrites' = implWrites]_vars

\* A request was answered after the provider was detected as KernelSU.
C10_Witness ==
    /\ ROOT_IMPL = "KernelSU"
    /\ implWrites = 1
    /\ Answered # {}

\* A detector found its backend.
Present(v) == v # "Absent"

\* The classification of the two detection results.
Classified(k, m) ==
    IF ~Present(k) /\ ~Present(m) THEN "None"
    ELSE IF Present(k) /\ Present(m) THEN "Multiple"
    ELSE LET v == IF Present(k) THEN k ELSE m IN
         IF v = "Supported" THEN (IF Present(k) THEN "KernelSU" ELSE "Magisk")
         ELSE v

\* C11: once setup() has run, ROOT_IMPL is None if neither backend is
\* present, Multiple if both are whatever their versions, otherwise the
\* result of the one present (KernelSU or Magisk when supported, TooOld,
\* Abnormal); and each detector has been queried exactly once.
C11_SetupClassifies ==
    phase # "boot" =>
       /\ \A k \in env.ksu, m \in env.magisk : ROOT_IMPL = Classified(k, m)
       /\ queries = [ksu |-> 1, magisk |-> 1]

\* setup() has run with a KernelSU that is too old and a supported Magisk.
C11_Witness ==
    /\ phase = "setup"
    /\ env.ksu = {"TooOld"} /\ env.magisk = {"Supported"}
    /\ ROOT_IMPL = "Multiple"

\* The entries of dir that have the shared object, no disable marker and a
\* library descriptor.
Eligible(dir) ==
    {k \in 1..Len(dir) : dir[k].so /\ ~dir[k].disabled /\ dir[k].fd_ok}

\* C13: the modules loaded are exactly the eligible entries of the
\* directory, in enumeration order (none when the directory cannot be
\* read): an entry that is not eligible is left out alone.
C13_LoadsEligible ==
    phase \in {"loaded", "listening"} =>
       \A dir \in env.dirs :
          \/ env.faults /\ modules = <<>>
          \/ /\ {modules[i] : i \in DOMAIN modules} = Eligible(dir)
             /\ Len(modules) = Cardinality(Eligible(dir))
             /\ \A i, j \in DOMAIN modules : i < j => modules[i] < modules[j]

\* A directory of two entries whose first is disabled, or has a descriptor
\* that cannot be created: exactly the second is loaded.
C13_Witness ==
    /\ phase = "loaded"
    /\ \E dir \in env.dirs :
          /\ Len(dir) = 2
          /\ dir[1].so /\ (dir[1].disabled \/ ~dir[1].fd_ok)
          /\ modules = <<2>>

\* C12: the module list is set before the first connection is accepted and
\* never changes afterwards; every answered ReadModules holds its count and
\* its names in order, every answered GetModuleDir the directory of the
\* module at its index, and a RequestCompanionSocket works under the lock
\* of the module at its index.
C12_ModulesFixed ==
    /\ [](\A c \in Conn :
            /\ (act[c] = "ReadModules" /\ pc[c] = "ok") =>
                  /\ Len(resp[c]) = 1 + 2 * Len(modules)
                  /\ resp[c][1] = Item("usize", Len(modules))
                  /\ \A i \in 1..Len(modules) :
                        /\ resp[c][2 * i] = Item("string", modules[i])
                        /\ resp[c][2 * i + 1] = Item("fd_memfd", modules[i])
            /\ (act[c] = "GetModuleDir" /\ pc[c] = "ok") =>
                  resp[c] = <<Item("fd_dir", modules[arg[c] + 1])>>
            /\ pc[c] \in Section =>
                  arg[c] \in ModuleIndices /\ mutex[arg[c]] = c)
    /\ []((\E c \in Conn : pc[c] # "idle") => phase \in {"listening", "exited"})
    /\ [][phase # "setup" => modules' = modules]_vars

\* ReadModules was answered with two modules after a companion request
\* for the second of them was served.
C12_Witness ==
    \E c, d \in Conn :
       /\ act[c] = "ReadModules" /\ pc[c] = "ok" /\ Len(modules) = 2
       /\ Companion(d) /\ d < c /\ arg[d] = 1 /\ pc[d] = "ok"

\* C19: while a unit holds the lock of a module, a connection that arrives
\* can be read and dispatched whatever its action, a unit waiting for the
\* lock of a module nobody holds can take it, and a unit under the lock of
\* another module can take its next step.
C19_OthersNotBlocked ==
    \A c, d \in Conn :
       (c # d /\ phase = "listening" /\ pc[c] \in Section) =>
          /\ Arrives(d) =>
                /\ "PingHeartbeat" \in env.workload => ENABLED PingHeartbeat(d)
                /\ "RequestLogcatFd" \in env.workload => ENABLED RequestLogcatFd(d)
                /\ "ReadNativeBridge" \in env.workload => ENABLED ReadNativeBridge(d)
                /\ "GetProcessFlags" \in env.workload => ENABLED GetProcessFlags(d)
                /\ "ReadModules" \in env.workload => ENABLED ReadModules(d)
                /\ "GetModuleDir" \in env.workload => ENABLED GetModuleDir(d)
                /\ "RequestCompanionSocket" \in env.workload =>
                      ENABLED RequestCompanionSocket(d)
          /\ (pc[d] = "lock" /\ mutex[arg[d]] = NoHolder) => ENABLED LockAndProbe(d)
          /\ pc[d] \in {"spawn", "respond"} => ENABLED Handler(d)
          /\ (pc[d] = "read_status" /\ status[d] # NoByte) => ENABLED ReadStatus(d)

\* A unit holds the lock of a module for ever (its companion exited
\* without a status byte); a later request for the other module was
\* handed to its companion.
C19_Witness ==
    \E c, d \in Conn :
       /\ DiedSilent(c) /\ mutex[arg[c]] = c
       /\ c < d /\ Companion(d) /\ arg[d] \in ModuleIndices /\ arg[d] # arg[c]
       /\ pc[d] = "ok" /\ resp[d] = <<Item("handoff", 0)>>

\* C14: a GetProcessFlags request makes its policy queries (root granted,
\* denylist) only when ROOT_IMPL is KernelSU or Magisk.
C14_NoQueryUnlessSupported ==
    \A c \in Conn : hist[c].queried => ROOT_IMPL \in {"KernelSU", "Magisk"}

\* The step in which unit c ends after its handoff failed.
HandoffFailed(c) ==
    /\ pc[c] = "respond" /\ pc'[c] \in Final
    /\ hist'[c].fail = "handoff_fail"

\* C15 as stated: after a request whose handoff failed, the slot of the
\* module is empty.
C15_HandoffFailureClears ==
    [][\A c \in Conn : HandoffFailed(c) => companion'[arg[c]] = NoEndpoint]_vars

\* C15 as amended: the reuse check empties the slot exactly when it
\* observes that the peer is closed; a failed handoff answers the byte 0
\* and leaves the connection in the slot.
C15_OnlyProbeClears ==
    [][\A c \in Conn :
          /\ (pc[c] = "lock" /\ pc'[c] \in Section /\ companion[arg[c]] # NoEndpoint) =>
                (companion'[arg[c]] = NoEndpoint <=> PeerClosed(companion[arg[c]]))
          /\ HandoffFailed(c) =>
                /\ companion'[arg[c]] = companion[arg[c]]
                /\ companion[arg[c]] # NoEndpoint
                /\ resp'[c] \in {<<Byte0>>, <<>>}]_vars

\* A request ended with the byte 0 after its handoff failed on a closed
\* peer, and the connection is still in the slot.
C15_Witness ==
    \E c \in Conn :
       /\ hist[c].fail = "handoff_fail" /\ pc[c] = "ok" /\ resp[c] = <<Byte0>>
       /\ companion[arg[c]] # NoEndpoint
       /\ PeerClosed(companion[arg[c]])

\* The daemon-side steps of the spawn protocol, in order.
SpawnOrder == <<"wait", "name", "fd", "status">>

\* The spawn of unit c returns to the handler.
SpawnReturns(c) == pc[c] \in {"spawn", "read_status"} /\ pc'[c] = "respond"

\* C16: the daemon-side steps a spawn has done are an initial part of
\* wait, name, descriptor, status; when the spawn returns the slot holds
\* the new endpoint iff all four were done and the status byte was 1, and
\* is empty otherwise (byte 0, another byte, an earlier failure).
C16_SpawnProtocol ==
    /\ [](\A c \in Conn :
            \E n \in 0..Len(SpawnOrder) : hist[c].steps = SubSeq(SpawnOrder, 1, n))
    /\ [][\A c \in Conn :
             SpawnReturns(c) =>
                /\ companion'[arg[c]] = c <=>
                      (pc[c] = "read_status" /\ status[c] = 1
                       /\ hist'[c].steps = SpawnOrder)
                /\ companion'[arg[c]] # c => companion'[arg[c]] = NoEndpoint
                /\ hist'[c].fail # "none" <=>
                      (pc[c] = "spawn" \/ status[c] \notin {0, 1})]_vars

\* One spawn returned with the endpoint in the slot after the byte 1,
\* another failed after the name was sent and left the slot empty.
C16_Witness ==
    \E c, d \in Conn :
       /\ hist[c].steps = SpawnOrder /\ companion[arg[c]] = c /\ pc[c] = "respond"
       /\ hist[d].steps = <<"wait", "name">> /\ hist[d].fail = "xfer_err"
       /\ pc[d] = "respond" /\ companion[arg[d]] = NoEndpoint

\* C17: the forked child never returns into the request handler: it
\* writes nothing on the client's stream, so while the daemon waits for
\* the status byte the client has received nothing.
C17_ChildTerminates ==
    \A c \in Conn :
       /\ ~hist[c].child_returned
       /\ pc[c] = "read_status" => resp[c] = <<>>

\* C18: a unit waiting for the lock of a module eventually leaves the
\* wait, as long as the daemon runs.
C18_LockEventuallyAcquired ==
    \A d \in Conn : (pc[d] = "lock") ~> (pc[d] # "lock" \/ phase = "exited")

\* C20: a live companion process holds only endpoints that were created
\* for the spawn of its own module.
C20_EndpointNotShared ==
    \A p \in Conn :
       proc[p] # NoProc => \A e \in procFds[p] : arg[e] = proc[p]

====
